---- MODULE Spec2Model ----
(***************************************************************************)
(* Finance agent: the seven vnstock tools of app/tools.py (ToolSpec) and   *)
(* the /query orchestrator process_query of app/main.py (Spec).            *)
(*                                                                         *)
(* Prices and indicator values are integers in hundredths (11.33 is 1133). *)
(* The date range (start, end) is passed unchanged to the provider and to  *)
(* the messages and takes part in no decision, so it is not carried.       *)
(***************************************************************************)
EXTENDS Integers, Sequences, FiniteSets, TLC

VARIABLES
    \* ---- one call of a tool's _run (app/tools.py)
    tool,        \* name of the tool being run, None before the call
    tpc,         \* "idle" | "loop" (inside for symbol in symbols) | "returned"
    symbols,     \* argument symbols
    interval,    \* local interval, after the None default
    columns,     \* columns of ViewOHLCVTool._run (reassigned in the loop)
    periods,     \* the period argument as a list: periods of SMA, <<period>> of RSI
    idx,         \* position of the loop in symbols (1-based)
    results,     \* local dict results
    ret,         \* the value _run returned
    fetches,     \* provider calls issued so far: <<[symbol, outcome]>>
    tool_answer, \* the answer process_query renders from the value returned
    \* ---- one request of process_query (app/main.py)
    pc,                  \* position in process_query
    query,               \* request.query
    classification,      \* classification_result
    decomposed_queries,  \* decomposed_queries
    agent_results,       \* local list results of the complex branch
    calls,               \* log of the external stages invoked, in order
    response             \* what the request ended with

toolvars == <<tool, tpc, symbols, interval, columns, periods, idx, results, ret, fetches, tool_answer>>
orchvars == <<pc, query, classification, decomposed_queries, agent_results, calls, response>>
vars == <<tool, tpc, symbols, interval, columns, periods, idx, results, ret, fetches, tool_answer,
          pc, query, classification, decomposed_queries, agent_results, calls, response>>

\* Python's None
None == "<None>"

\* ------------------------------------------------------------------ bounds
MaxSymbols == 3
MaxSubQueries == 3

\* ------------------------------------------------------------ generic helpers
Range(s) == {s[i] : i \in DOMAIN s}
EmptyDict == [k \in {} |-> None]
DictSet_keeping_first(d, k, v) ==
    [x \in (DOMAIN d) \cup {k} |-> IF x \in DOMAIN d THEN d[x] ELSE v]
\* d[k] = v
DictSet(d, k, v) == [x \in (DOMAIN d) \cup {k} |-> IF x = k THEN v ELSE d[x]]
NoDuplicates(s) == \A i, j \in DOMAIN s : i # j => s[i] # s[j]

\* an optional number of a pandas column: <<>> is null/NaN, <<v>> a value
Null == <<>>
Some(v) == <<v>>

\* numpy's round: the quotient num/den (num >= 0, den > 0) to the nearest
\* integer, ties to even
RoundHalfEven(num, den) ==
    LET q == num \div den
        r == num % den
    IN  IF 2 * r < den THEN q
        ELSE IF 2 * r > den THEN q + 1
        ELSE IF q % 2 = 0 THEN q ELSE q + 1

RECURSIVE SumRange(_, _, _)
SumRange(s, lo, hi) == IF lo > hi THEN 0 ELSE s[hi] + SumRange(s, lo, hi - 1)

RECURSIVE Pow(_, _)
Pow(b, e) == IF e = 0 THEN 1 ELSE b * Pow(b, e - 1)

\* ------------------------------------------------------------ tool constants
valid_intervals == <<"1m", "5m", "15m", "30m", "1H", "1D", "1W", "1M">>
available_columns == <<"time", "open", "high", "low", "close", "volume">>

CompanyTools == {"view_shareholders", "view_management", "view_subsidiaries"}
IntervalTools == {"view_ohlcv", "calculate_total_volume", "calculate_sma", "calculate_rsi"}

\* ------------------------------------------------------------------ inputs
SymbolNames == {"VCB", "ZZZZ"}
SymbolLists == UNION {[1..n -> SymbolNames] : n \in 0..MaxSymbols}

\* intervals a caller passes: absent, two of the eight, a wrong case, an unknown one
IntervalInputs == {None, "1D", "1m", "1d", "2D"}

\* columns a caller passes: [given |-> FALSE] is None
NoColumns == [given |-> FALSE, list |-> <<>>]
ColumnList(l) == [given |-> TRUE, list |-> l]
ColumnInputs ==
    {NoColumns, ColumnList(<<>>), ColumnList(<<"close">>), ColumnList(<<"time", "close">>),
     ColumnList(<<"open", "volume">>), ColumnList(<<"close", "close">>),
     ColumnList(<<"Close">>), ColumnList(<<"close", "price">>)}

\* period argument of the SMA tool: a bare int or a list of ints
IntPeriod(p) == [isInt |-> TRUE, val |-> p]
ListPeriod(l) == [isInt |-> FALSE, val |-> l]
SMAPeriodInputs ==
    {IntPeriod(2), IntPeriod(0), ListPeriod(<<1>>), ListPeriod(<<2, 3>>), ListPeriod(<<2, 5>>),
     ListPeriod(<<0>>), ListPeriod(<<2, -1>>), ListPeriod(<<-1, 2>>), ListPeriod(<<>>)}
RSIPeriodInputs == {-1, 0, 1, 2, 5}

\* --------------------------------------------------------- provider outcomes
Bar(t, o, h, l, c, v) ==
    [time |-> t, open |-> o, high |-> h, low |-> l, close |-> c, volume |-> v]
Restrict(row, cols) == [c \in cols |-> row[c]]

FullBars ==
    << Bar(1000, 1000, 1200, 900, 1000, 100), Bar(2000, 1000, 1300, 1000, 1100, 150),
       Bar(3000, 1100, 1400, 1100, 1300, 50), Bar(4000, 1300, 1300, 1100, 1200, 70) >>

\* a DataFrame: its column labels in order and its rows
DataFrame(cols, rows) == [columns |-> cols, rows |-> rows]
DF_full == DataFrame(available_columns, FullBars)
DF_partial ==
    DataFrame(<<"time", "open", "high", "low">>,
              [i \in 1..2 |-> Restrict(FullBars[i], {"time", "open", "high", "low"})])
DF_foreign == DataFrame(<<"price">>, << [c \in {"price"} |-> 1000] >>)
DF_facet == DataFrame(<<"name", "share">>, << [name |-> 1, share |-> 51] >>)

\* what one call of the provider can do: return None, return an empty frame,
\* raise, or return a frame with rows
ReturnsNone == [kind |-> "none"]
ReturnsEmpty == [kind |-> "empty"]
Raises == [kind |-> "raise", text |-> "provider error"]
Returns(df) == [kind |-> "data", df |-> df]
QuoteOutcomes == {ReturnsNone, ReturnsEmpty, Raises, Returns(DF_full), Returns(DF_partial), Returns(DF_foreign)}
CompanyOutcomes == {ReturnsNone, ReturnsEmpty, Raises, Returns(DF_facet)}

\* ------------------------------------------------------------ result values
\* a text message: which f-string produced it, for which symbol, with what detail
Message(id, symbol, detail) == [kind |-> "msg", id |-> id, symbol |-> symbol, detail |-> detail]
\* DataFrame.to_json(orient='records'): the JSON-encoded record list
to_json(df) == [kind |-> "json", records |-> df.rows]
\* a bare Python int
IntResult(n) == [kind |-> "int", val |-> n]
\* the dict a _run returns after its loop
Mapping(d) == [kind |-> "mapping", map |-> d]
NotReturned == [kind |-> "none"]

\* ------------------------------------------------------------ Indicator Engine
Closes(df) == [i \in 1..Len(df.rows) |-> df.rows[i]["close"]]

sma_defined_late(close, p) ==
    [i \in 1..Len(close) |->
        IF i <= p THEN Null ELSE Some(RoundHalfEven(SumRange(close, i - p + 1, i), p))]

\* pandas_ta sma(close, length=p): None when the series is shorter than p, else
\* the rolling mean, null for the first p-1 bars; then Series.round(2)
sma(close, p) ==
    [i \in 1..Len(close) |->
        IF i < p THEN Null ELSE Some(RoundHalfEven(SumRange(close, i - p + 1, i), p))]

\* length = int(length) if length and length > 0 else <default>: the library's
\* default length replaces a length that is not positive
ta_length(p, default) == IF p > 0 THEN p ELSE default

\* gain (up = TRUE) or loss of bar k >= 2 against the bar before it
Move(close, k, up) ==
    LET d == close[k] - close[k - 1]
    IN  IF up THEN (IF d > 0 THEN d ELSE 0) ELSE (IF d < 0 THEN 0 - d ELSE 0)

\* pandas_ta rma = ewm(alpha = 1/p, min_periods = p).mean() of the gains (losses)
\* up to bar i, scaled by the common factor p^(i-2) * (sum of the weights)
RECURSIVE Smoothed(_, _, _, _, _)
Smoothed(close, p, i, k, up) ==
    IF k > i THEN 0
    ELSE Pow(p - 1, i - k) * Pow(p, k - 2) * Move(close, k, up)
         + Smoothed(close, p, i, k + 1, up)

rsi_defined_early(close, p) ==
    [i \in 1..Len(close) |->
        IF i < p THEN Null
        ELSE LET G == Smoothed(close, p, i, 2, TRUE)
                 L == Smoothed(close, p, i, 2, FALSE)
             IN  IF G + L = 0 THEN Null ELSE Some(RoundHalfEven(10000 * G, G + L))]

\* pandas_ta rsi(close, length=p): 100 * avg gain / (avg gain + avg loss), null
\* until p differences exist (the first p bars) and where both averages are 0
rsi(close, p) ==
    [i \in 1..Len(close) |->
        IF i <= p THEN Null
        ELSE LET G == Smoothed(close, p, i, 2, TRUE)
                 L == Smoothed(close, p, i, 2, FALSE)
             IN  IF G + L = 0 THEN Null ELSE Some(RoundHalfEven(10000 * G, G + L))]

\* ohlcv_data[name] = values
AddColumn(df, name, values) ==
    DataFrame(IF name \in Range(df.columns) THEN df.columns ELSE Append(df.columns, name),
              [i \in 1..Len(df.rows) |-> DictSet(df.rows[i], name, values[i])])
\* ohlcv_data[name] = None
AddNoneColumn(df, name) == AddColumn(df, name, [i \in 1..Len(df.rows) |-> Null])
\* ohlcv_data[cols]
SelectColumns(df, cols) ==
    DataFrame(cols, [i \in 1..Len(df.rows) |-> Restrict(df.rows[i], Range(cols))])

\* ------------------------------------------------------------ input validation
\* if interval is None: interval = "1D"
interval_default(i) == IF i = None THEN "1D" ELSE i

IntervalIsValidAnyCase(i) == i \in Range(valid_intervals) \cup {"1d", "1h", "1w"}
\* interval in valid_intervals
IntervalIsValid(i) == i \in Range(valid_intervals)

interval_rejection == Message("invalid_interval", None, valid_intervals)

FirstColumnInvalid(cols) ==
    IF Len(cols) > 0 /\ cols[1] \notin Range(available_columns) THEN <<cols[1]>> ELSE <<>>
\* [col for col in columns if col not in available_columns]
invalid_columns(cols) == SelectSeq(cols, LAMBDA c : c \notin Range(available_columns))

\* Python truthiness of the columns argument: neither None nor []
Truthy(cols) == cols.given /\ Len(cols.list) > 0

\* periods = [period] if isinstance(period, int) else period
periods_of(period) == IF period.isInt THEN <<period.val>> ELSE period.val

PeriodNegative(p) == p < 0
\* p <= 0
PeriodNonPositive(p) == p <= 0

\* for p in periods: if p <= 0: return ...  -- the first offending period, 0 if none
FirstRejectedPeriod(ps) ==
    IF \E k \in DOMAIN ps : PeriodNonPositive(ps[k])
    THEN CHOOSE k \in DOMAIN ps :
            PeriodNonPositive(ps[k]) /\ \A j \in 1..(k - 1) : ~PeriodNonPositive(ps[j])
    ELSE 0

\* -------------------------------------------------- per-symbol bodies of the loops
NoData(o) == o.kind \in {"none", "empty"}

\* body of the loop of the three company tools
CompanyTool_symbol(name, symbol, o) ==
    IF o.kind = "raise" THEN Message(name \o ":error", symbol, <<o.text>>)
    ELSE IF NoData(o) THEN Message(name \o ":not_found", symbol, <<>>)
    ELSE to_json(o.df)

ViewOHLCV_symbol_without_time(symbol, o, itv, cols) ==
    IF o.kind = "raise"
    THEN [value |-> Message("view_ohlcv:error", symbol, <<o.text>>), columns |-> cols]
    ELSE IF NoData(o)
    THEN [value |-> Message("view_ohlcv:not_found", symbol, <<itv>>), columns |-> cols]
    ELSE IF ~Truthy(cols) THEN [value |-> to_json(o.df), columns |-> cols]
    ELSE LET available_cols_in_data ==
                 SelectSeq(cols.list, LAMBDA c : c \in Range(o.df.columns))
         IN  [columns |-> cols,
              value |->
                 IF available_cols_in_data = <<>>
                 THEN Message("view_ohlcv:no_columns", symbol, <<>>)
                 ELSE IF ~NoDuplicates(available_cols_in_data)
                 THEN Message("view_ohlcv:error", symbol, <<"DataFrame columns must be unique">>)
                 ELSE to_json(SelectColumns(o.df, available_cols_in_data))]

\* body of the loop of ViewOHLCVTool._run: the value stored under the symbol and
\* the local columns after the iteration
ViewOHLCV_symbol(symbol, o, itv, cols) ==
    IF o.kind = "raise"
    THEN [value |-> Message("view_ohlcv:error", symbol, <<o.text>>), columns |-> cols]
    ELSE IF NoData(o)
    THEN [value |-> Message("view_ohlcv:not_found", symbol, <<itv>>), columns |-> cols]
    ELSE IF ~Truthy(cols) THEN [value |-> to_json(o.df), columns |-> cols]
    ELSE LET cols2 == IF "time" \notin Range(cols.list) /\ Len(cols.list) > 0
                      THEN ColumnList(<<"time">> \o cols.list) ELSE cols
             available_cols_in_data ==
                 SelectSeq(cols2.list, LAMBDA c : c \in Range(o.df.columns))
         IN  [columns |-> cols2,
              value |->
                 IF available_cols_in_data = <<>>
                 THEN Message("view_ohlcv:no_columns", symbol, <<>>)
                 ELSE IF ~NoDuplicates(available_cols_in_data)
                 \* to_json(orient='records') raises on duplicate column labels
                 THEN Message("view_ohlcv:error", symbol, <<"DataFrame columns must be unique">>)
                 ELSE to_json(SelectColumns(o.df, available_cols_in_data))]

CalculateTotalVolume_symbol_as_json(symbol, o, itv) ==
    IF o.kind = "raise" THEN Message("calculate_total_volume:error", symbol, <<o.text>>)
    ELSE IF NoData(o) THEN Message("calculate_total_volume:not_found", symbol, <<itv>>)
    ELSE IF "volume" \notin Range(o.df.columns)
    THEN Message("calculate_total_volume:no_volume", symbol, <<>>)
    ELSE to_json(SelectColumns(o.df, <<"volume">>))

\* body of the loop of CalculateTotalVolumeTool._run
CalculateTotalVolume_symbol(symbol, o, itv) ==
    IF o.kind = "raise" THEN Message("calculate_total_volume:error", symbol, <<o.text>>)
    ELSE IF NoData(o) THEN Message("calculate_total_volume:not_found", symbol, <<itv>>)
    ELSE IF "volume" \notin Range(o.df.columns)
    THEN Message("calculate_total_volume:no_volume", symbol, <<>>)
    ELSE IntResult(SumRange([i \in 1..Len(o.df.rows) |-> o.df.rows[i]["volume"]],
                            1, Len(o.df.rows)))

\* for p in periods: ohlcv_data[f'SMA_{p}'] = ta.sma(...); ...round(2), from the k-th
\* period on. ta.sma returns None for a series shorter than p and the column is
\* then all None; rounding that object column raises or leaves it as it is,
\* depending on the pandas version (roundRaises).
RECURSIVE SMAColumns(_, _, _, _)
SMAColumns(df, ps, k, roundRaises) ==
    IF k > Len(ps) THEN [raised |-> FALSE, df |-> df]
    ELSE LET name == "SMA_" \o ToString(ps[k])
             length == ta_length(ps[k], 10)
         IN  IF Len(df.rows) < length
             THEN IF roundRaises THEN [raised |-> TRUE, df |-> df]
                  ELSE SMAColumns(AddNoneColumn(df, name), ps, k + 1, roundRaises)
             ELSE SMAColumns(AddColumn(df, name, sma(Closes(df), length)), ps, k + 1, roundRaises)

\* body of the loop of CalculateSMATool._run
CalculateSMA_symbol(symbol, o, itv, ps, roundRaises) ==
    IF o.kind = "raise" THEN Message("calculate_sma:error", symbol, <<o.text>>)
    ELSE IF NoData(o) THEN Message("calculate_sma:not_found", symbol, <<itv>>)
    ELSE IF "close" \notin Range(o.df.columns) THEN Message("calculate_sma:no_close", symbol, <<>>)
    ELSE LET r == SMAColumns(o.df, ps, 1, roundRaises)
         IN  IF r.raised
             THEN Message("calculate_sma:error", symbol, <<"Expected numeric dtype">>)
             ELSE to_json(r.df)

\* body of the loop of CalculateRSITool._run
CalculateRSI_symbol(symbol, o, itv, p, roundRaises) ==
    IF o.kind = "raise" THEN Message("calculate_rsi:error", symbol, <<o.text>>)
    ELSE IF NoData(o) THEN Message("calculate_rsi:not_found", symbol, <<itv>>)
    ELSE IF "close" \notin Range(o.df.columns) THEN Message("calculate_rsi:no_close", symbol, <<>>)
    ELSE LET name == "RSI_" \o ToString(p)
             length == ta_length(p, 14)
         IN  IF Len(o.df.rows) < length
             THEN IF roundRaises
                  THEN Message("calculate_rsi:error", symbol, <<"Expected numeric dtype">>)
                  ELSE to_json(AddNoneColumn(o.df, name))
             ELSE to_json(AddColumn(o.df, name, rsi(Closes(o.df), length)))

\* ------------------------------------------------------- process_query: values
Queries == {"Q"}
SubQueryNames == {"Q", "S1", "S2"}
SubQueryLists == UNION {[1..n -> SubQueryNames] : n \in 0..MaxSubQueries}

\* QueryClassification as the classifier's parser yields it
Classifications == [is_complex : BOOLEAN, reasoning : {"why"}]

\* texts; the field form tells how the text was made
\* structured_response.content
Content(t) == [form |-> "content", of |-> t]
\* str(x) of a Python object
Str(x) == [form |-> "str", of |-> x]
\* df.to_string(index=False) of the rows
Table(rows) == [form |-> "table", of |-> rows]
\* CombinedResult.combined_answer
CombinedAnswer(q) == [form |-> "combined", of |-> q]

\* payloads a return_direct tool leaves in messages[-1].content: what a _run returned
TablePayload ==
    Mapping(DictSet(DictSet(EmptyDict, "VCB", to_json(DF_full)), "ZZZZ",
                    to_json(SelectColumns(DF_partial, <<"time", "open">>))))
MixedPayload ==
    Mapping(DictSet(DictSet(EmptyDict, "VCB", to_json(DF_full)), "ZZZZ",
                    Message("view_ohlcv:not_found", "ZZZZ", <<"1D">>)))
NoTimePayload == Mapping(DictSet(EmptyDict, "VCB", to_json(DF_foreign)))
RejectionPayload == interval_rejection
AIText == [kind |-> "text"]

\* the dict agent.invoke returns: 'messages' always (last is its last message's
\* content), 'structured_response' and 'output' each present (<<v>>) or not (<<>>)
AgentResult(last, structured, output) ==
    [last |-> last, structured_response |-> structured, output |-> output]
Narrated == AgentResult(AIText, Some("narrated answer"), Null)
NarratedOverPayload == AgentResult(TablePayload, Some("narrated answer"), Null)
AgentResults ==
    {Narrated, NarratedOverPayload,
     AgentResult(TablePayload, Null, Null), AgentResult(MixedPayload, Null, Null),
     AgentResult(NoTimePayload, Null, Null), AgentResult(RejectionPayload, Null, Null),
     AgentResult(AIText, Null, Some("final output"))}

\* an agent result that reports a failure of the tool call in its text
ReportsFailure(result) ==
    /\ result.structured_response = Null
    /\ result.last \in {MixedPayload, RejectionPayload}

\* what an external stage can do: raise (with the error's text) or return a value
StageRaises(text) == [raised |-> TRUE, text |-> text]
StageReturns(v) == [raised |-> FALSE, value |-> v]

QueryResponse(answer, is_complex, reasoning) ==
    [kind |-> "QueryResponse", answer |-> answer, is_complex |-> is_complex,
     reasoning |-> reasoning]
\* raise HTTPException(status_code=500, detail=f"Error processing query: {str(e)}")
HTTPException(text) == [kind |-> "HTTPException", detail |-> text]

\* ---------------------------------------------------- process_query: rendering
\* pd.to_datetime(ms, unit="ms")
Timestamp(ms) == [epoch_ms |-> ms]

ParsesAsTable_without_time(last) ==
    /\ last.kind = "mapping"
    /\ \A s \in DOMAIN last.map : last.map[s].kind = "json"

\* json.loads of the last message gives a dict whose every value json.loads to a
\* record list, and some record has a time field (df["time"] exists)
ParsesAsTable(last) ==
    /\ last.kind = "mapping"
    /\ \A s \in DOMAIN last.map : last.map[s].kind = "json"
    /\ \E s \in DOMAIN last.map : \E i \in DOMAIN last.map[s].records :
          "time" \in DOMAIN last.map[s].records[i]

\* all_rows with r["symbol"] = symbol and the time column converted; a record
\* without time gets NaT
TableRows(last) ==
    UNION { { [symbol |-> s, row |-> i,
               time |-> IF "time" \in DOMAIN last.map[s].records[i]
                        THEN Some(Timestamp(last.map[s].records[i]["time"])) ELSE Null,
               record |-> last.map[s].records[i]] : i \in DOMAIN last.map[s].records } :
            s \in DOMAIN last.map }

extract_answer_table_first(result) ==
    IF ParsesAsTable(result.last) THEN Table(TableRows(result.last))
    ELSE IF result.structured_response # Null
    THEN Content(result.structured_response[1])
    ELSE IF result.output # Null THEN Str(result.output[1]) ELSE Str(result)

\* lines 80-106: the answer of the simple branch
extract_answer(result) ==
    IF result.structured_response # Null
    THEN Content(result.structured_response[1])
    ELSE IF ParsesAsTable(result.last) THEN Table(TableRows(result.last))
    \* except: answer = str(result.get('output', result))
    ELSE IF result.output # Null THEN Str(result.output[1]) ELSE Str(result)

format_result_extracted(result) == extract_answer(result)
\* line 62: {result.get('output', str(result))} inside the f-string
format_result(result) ==
    IF result.output # Null THEN Str(result.output[1]) ELSE Str(result)

formatted_results_from_zero(rs) == [i \in 1..Len(rs) |-> [n |-> i - 1, body |-> format_result(rs[i])]]
\* lines 60-62: one block "Kết quả {i}:\n{...}\n\n" per result, i from 1
formatted_results(rs) == [i \in 1..Len(rs) |-> [n |-> i, body |-> format_result(rs[i])]]

\* ------------------------------------------------------------ the tool instances
AllTools == CompanyTools \cup IntervalTools

\* return_direct of the instances create_finance_agent builds for the agent
create_finance_agent_tools ==
    [t \in AllTools |-> t \in {"view_ohlcv", "calculate_sma", "calculate_rsi"}]

\* return_direct of the instances get_all_tools builds: the class defaults
get_all_tools == [t \in AllTools |-> FALSE]

answer_of_tool_call_skipping_errors(name, r) ==
    IF create_finance_agent_tools[name]
    THEN IF r.kind = "mapping"
         THEN extract_answer(AgentResult(
                 Mapping([s \in {x \in DOMAIN r.map : r.map[x].kind = "json"} |-> r.map[s]]),
                 Null, Null))
         ELSE extract_answer(AgentResult(r, Null, Null))
    ELSE extract_answer(AgentResult(r, Some("narrated answer"), Null))

\* what the simple branch of process_query answers when the agent ran the tool
\* and the tool returned r: a return_direct tool ends the agent run with r as the
\* last message and no structured_response; otherwise the agent narrates
answer_of_tool_call(name, r) ==
    IF create_finance_agent_tools[name]
    THEN extract_answer(AgentResult(r, Null, Null))
    ELSE extract_answer(AgentResult(r, Some("narrated answer"), Null))

\* ------------------------------------------------------------------ initial state
Init ==
    /\ tool = None /\ tpc = "idle" /\ symbols = <<>> /\ interval = None
    /\ columns = NoColumns /\ periods = <<>> /\ idx = 1 /\ results = EmptyDict
    /\ ret = NotReturned /\ fetches = <<>> /\ tool_answer = None
    /\ pc = "start" /\ query = None /\ classification = None /\ decomposed_queries = <<>>
    /\ agent_results = <<>> /\ calls = <<>> /\ response = None

\* ------------------------------------------------------------ the tools' _run
LoopBreak(i) == Len(symbols) + 1
\* for symbol in symbols: every path of the body (continue, fall through, except)
\* goes on to the next symbol
LoopNext(i) == i + 1

\* validation passed: results = {} and the loop is entered (it ends at once on [])
EnterLoop(name, syms, itv, cols, ps) ==
    /\ tpc = "idle"
    /\ tool' = name /\ symbols' = syms /\ interval' = itv /\ columns' = cols /\ periods' = ps
    /\ results' = EmptyDict /\ idx' = 1
    /\ IF Len(syms) = 0
       THEN /\ tpc' = "returned" /\ ret' = Mapping(EmptyDict)
            /\ tool_answer' = answer_of_tool_call(name, Mapping(EmptyDict))
       ELSE tpc' = "loop" /\ ret' = NotReturned /\ UNCHANGED tool_answer
    /\ UNCHANGED fetches
    /\ UNCHANGED orchvars

\* validation failed: return <message> before the loop
Reject(name, syms, itv, cols, ps, msg) ==
    /\ tpc = "idle"
    /\ tool' = name /\ symbols' = syms /\ interval' = itv /\ columns' = cols /\ periods' = ps
    /\ results' = EmptyDict /\ tpc' = "returned" /\ ret' = msg
    /\ tool_answer' = answer_of_tool_call(name, msg)
    /\ UNCHANGED <<idx, fetches>>
    /\ UNCHANGED orchvars

\* one iteration of the loop: the provider was asked for symbols[idx] with outcome
\* o, value is stored under the symbol; after the last symbol, return results
Iterate(name, o, value, cols) ==
    /\ tpc = "loop" /\ tool = name /\ idx <= Len(symbols)
    /\ fetches' = Append(fetches, [symbol |-> symbols[idx], outcome |-> o])
    /\ results' = DictSet(results, symbols[idx], value)
    /\ columns' = cols
    /\ idx' = LoopNext(idx)
    /\ IF LoopNext(idx) > Len(symbols)
       THEN /\ tpc' = "returned" /\ ret' = Mapping(DictSet(results, symbols[idx], value))
            /\ tool_answer' = answer_of_tool_call(name, Mapping(DictSet(results, symbols[idx], value)))
       ELSE tpc' = "loop" /\ UNCHANGED <<ret, tool_answer>>
    /\ UNCHANGED <<tool, symbols, interval, periods>>
    /\ UNCHANGED orchvars

ViewShareholdersTool_run(syms) == EnterLoop("view_shareholders", syms, None, NoColumns, <<>>)
ViewManagementTool_run(syms) == EnterLoop("view_management", syms, None, NoColumns, <<>>)
ViewSubsidiariesTool_run(syms) == EnterLoop("view_subsidiaries", syms, None, NoColumns, <<>>)

ViewShareholdersTool_loop ==
    \E o \in CompanyOutcomes :
        Iterate("view_shareholders", o,
                CompanyTool_symbol("view_shareholders", symbols[idx], o), columns)
ViewManagementTool_loop ==
    \E o \in CompanyOutcomes :
        Iterate("view_management", o,
                CompanyTool_symbol("view_management", symbols[idx], o), columns)
ViewSubsidiariesTool_loop ==
    \E o \in CompanyOutcomes :
        Iterate("view_subsidiaries", o,
                CompanyTool_symbol("view_subsidiaries", symbols[idx], o), columns)

ViewOHLCVTool_run(syms, itv0, cols) ==
    LET itv == interval_default(itv0)
    IN  IF ~IntervalIsValid(itv)
        THEN Reject("view_ohlcv", syms, itv, cols, <<>>, interval_rejection)
        ELSE IF cols.given /\ Len(cols.list) > 0 /\ invalid_columns(cols.list) # <<>>
        THEN Reject("view_ohlcv", syms, itv, cols, <<>>,
                    Message("invalid_columns", None, invalid_columns(cols.list)))
        ELSE EnterLoop("view_ohlcv", syms, itv, cols, <<>>)

ViewOHLCVTool_loop ==
    \E o \in QuoteOutcomes :
        LET r == ViewOHLCV_symbol(symbols[idx], o, interval, columns)
        IN  Iterate("view_ohlcv", o, r.value, r.columns)

CalculateTotalVolumeTool_run(syms, itv0) ==
    LET itv == interval_default(itv0)
    IN  IF ~IntervalIsValid(itv)
        THEN Reject("calculate_total_volume", syms, itv, NoColumns, <<>>, interval_rejection)
        ELSE EnterLoop("calculate_total_volume", syms, itv, NoColumns, <<>>)

CalculateTotalVolumeTool_loop ==
    \E o \in QuoteOutcomes :
        Iterate("calculate_total_volume", o,
                CalculateTotalVolume_symbol(symbols[idx], o, interval), columns)

CalculateSMATool_run(syms, itv0, period) ==
    LET itv == interval_default(itv0)
        ps == periods_of(period)
        bad == FirstRejectedPeriod(ps)
    IN  IF ~IntervalIsValid(itv)
        THEN Reject("calculate_sma", syms, itv, NoColumns, ps, interval_rejection)
        ELSE IF bad # 0
        THEN Reject("calculate_sma", syms, itv, NoColumns, ps,
                    Message("invalid_sma_period", None, <<ToString(ps[bad])>>))
        ELSE EnterLoop("calculate_sma", syms, itv, NoColumns, ps)

CalculateSMATool_loop ==
    \E o \in QuoteOutcomes, roundRaises \in BOOLEAN :
        Iterate("calculate_sma", o,
                CalculateSMA_symbol(symbols[idx], o, interval, periods, roundRaises), columns)

CalculateRSITool_run(syms, itv0, period) ==
    LET itv == interval_default(itv0)
    IN  IF ~IntervalIsValid(itv)
        THEN Reject("calculate_rsi", syms, itv, NoColumns, <<period>>, interval_rejection)
        ELSE IF PeriodNonPositive(period)
        THEN Reject("calculate_rsi", syms, itv, NoColumns, <<period>>,
                    Message("invalid_rsi_period", None, <<ToString(period)>>))
        ELSE EnterLoop("calculate_rsi", syms, itv, NoColumns, <<period>>)

CalculateRSITool_loop ==
    \E o \in QuoteOutcomes, roundRaises \in BOOLEAN :
        Iterate("calculate_rsi", o,
                CalculateRSI_symbol(symbols[idx], o, interval, periods[1], roundRaises), columns)

ToolNext ==
    \/ tpc = "idle" /\ \E syms \in SymbolLists : ViewShareholdersTool_run(syms)
    \/ tpc = "idle" /\ \E syms \in SymbolLists : ViewManagementTool_run(syms)
    \/ tpc = "idle" /\ \E syms \in SymbolLists : ViewSubsidiariesTool_run(syms)
    \/ tpc = "idle" /\ \E syms \in SymbolLists, itv \in IntervalInputs, cols \in ColumnInputs :
          ViewOHLCVTool_run(syms, itv, cols)
    \/ tpc = "idle" /\ \E syms \in SymbolLists, itv \in IntervalInputs : CalculateTotalVolumeTool_run(syms, itv)
    \/ tpc = "idle" /\ \E syms \in SymbolLists, itv \in IntervalInputs, period \in SMAPeriodInputs :
          CalculateSMATool_run(syms, itv, period)
    \/ tpc = "idle" /\ \E syms \in SymbolLists, itv \in IntervalInputs, period \in RSIPeriodInputs :
          CalculateRSITool_run(syms, itv, period)
    \/ ViewShareholdersTool_loop
    \/ ViewManagementTool_loop
    \/ ViewSubsidiariesTool_loop
    \/ ViewOHLCVTool_loop
    \/ CalculateTotalVolumeTool_loop
    \/ CalculateSMATool_loop
    \/ CalculateRSITool_loop

ToolSpec == Init /\ [][ToolNext]_vars

\* ---------------------------------------------------- process_query: the stages
Call(stage, arg, outcome) ==
    [stage |-> stage, arg |-> <<arg>>,
     error |-> IF outcome.raised THEN Some(outcome.text) ELSE Null,
     result |-> IF outcome.raised THEN Null ELSE Some(outcome.value)]

FailReturnsPartial(text) ==
    pc' = "done" /\ response' = QueryResponse(Str(agent_results), FALSE, text)
\* except Exception as e: raise HTTPException(...)
Fail(text) == pc' = "done" /\ response' = HTTPException(text)

AlwaysComplex(c) == TRUE
\* if classification_result.is_complex:
TakesComplexBranch(c) == c.is_complex

\* classification_result = classifier_chain.invoke({"query": query})
classifier_chain_invoke ==
    /\ pc = "start"
    /\ \E q \in Queries,
          outcome \in {StageRaises("classifier error")}
                      \cup {StageReturns(c) : c \in Classifications} :
        /\ query' = q
        /\ calls' = Append(calls, Call("classify", q, outcome))
        /\ IF outcome.raised
           THEN Fail(outcome.text) /\ UNCHANGED classification
           ELSE /\ classification' = outcome.value
                /\ pc' = IF TakesComplexBranch(outcome.value) THEN "decompose" ELSE "simple"
                /\ UNCHANGED response
    /\ UNCHANGED <<decomposed_queries, agent_results>>
    /\ UNCHANGED toolvars

\* decomposed_queries = decompose_complex_query(query, llm): result.sub_queries,
\* a list[str] of any length
decompose_complex_query ==
    /\ pc = "decompose"
    /\ \E outcome \in {StageRaises("decomposition error")}
                      \cup {StageReturns(l) : l \in SubQueryLists} :
        /\ calls' = Append(calls, Call("decompose", query, outcome))
        /\ IF outcome.raised
           THEN Fail(outcome.text) /\ UNCHANGED decomposed_queries
           ELSE /\ decomposed_queries' = outcome.value
                /\ pc' = IF Len(outcome.value) = 0 THEN "combine" ELSE "agent_loop"
                /\ UNCHANGED response
    /\ UNCHANGED <<query, classification, agent_results>>
    /\ UNCHANGED toolvars

agent_invoke_sub_query_stops_on_reported_failure ==
    /\ pc = "agent_loop"
    /\ LET sub_query == decomposed_queries[Len(agent_results) + 1]
       IN \E outcome \in {StageRaises("agent error")}
                         \cup {StageReturns(r) : r \in AgentResults} :
            /\ calls' = Append(calls, Call("agent", sub_query, outcome))
            /\ IF outcome.raised \/ ReportsFailure(outcome.value)
               THEN Fail("sub-query failed") /\ UNCHANGED agent_results
               ELSE /\ agent_results' = Append(agent_results, outcome.value)
                    /\ pc' = IF Len(agent_results) + 1 = Len(decomposed_queries)
                             THEN "combine" ELSE "agent_loop"
                    /\ UNCHANGED response
    /\ UNCHANGED <<query, classification, decomposed_queries>>
    /\ UNCHANGED toolvars

\* for sub_query in decomposed_queries: agent_result = agent.invoke(...);
\* results.append(agent_result)
agent_invoke_sub_query ==
    /\ pc = "agent_loop"
    /\ LET sub_query == decomposed_queries[Len(agent_results) + 1]
       IN \E outcome \in {StageRaises("agent error")}
                         \cup {StageReturns(r) : r \in AgentResults} :
            /\ calls' = Append(calls, Call("agent", sub_query, outcome))
            /\ IF outcome.raised
               THEN Fail(outcome.text) /\ UNCHANGED agent_results
               ELSE /\ agent_results' = Append(agent_results, outcome.value)
                    /\ pc' = IF Len(agent_results) + 1 = Len(decomposed_queries)
                             THEN "combine" ELSE "agent_loop"
                    /\ UNCHANGED response
    /\ UNCHANGED <<query, classification, decomposed_queries>>
    /\ UNCHANGED toolvars

\* formatted_results built; combined_result = combine_chain.invoke({...});
\* return QueryResponse(answer=combined_result.combined_answer, is_complex=True, ...)
combine_chain_invoke ==
    /\ pc = "combine"
    /\ \E outcome \in {StageRaises("combiner error"), StageReturns(CombinedAnswer(query))} :
        /\ calls' = Append(calls,
                           Call("combine", [original_query |-> query,
                                            results |-> formatted_results(agent_results)],
                                outcome))
        /\ IF outcome.raised
           THEN Fail(outcome.text)
           ELSE /\ pc' = "done"
                /\ response' = QueryResponse(outcome.value, TRUE, classification.reasoning)
    /\ UNCHANGED <<query, classification, decomposed_queries, agent_results>>
    /\ UNCHANGED toolvars

\* else: result = agent.invoke(...); answer extracted;
\* return QueryResponse(answer=answer, is_complex=False, ...)
agent_invoke_simple ==
    /\ pc = "simple"
    /\ \E outcome \in {StageRaises("agent error")}
                      \cup {StageReturns(r) : r \in AgentResults} :
        /\ calls' = Append(calls, Call("agent", query, outcome))
        /\ IF outcome.raised
           THEN Fail(outcome.text)
           ELSE /\ pc' = "done"
                /\ response' = QueryResponse(extract_answer(outcome.value), FALSE,
                                             classification.reasoning)
    /\ UNCHANGED <<query, classification, decomposed_queries, agent_results>>
    /\ UNCHANGED toolvars

Next ==
    \/ classifier_chain_invoke
    \/ decompose_complex_query
    \/ agent_invoke_sub_query
    \/ combine_chain_invoke
    \/ agent_invoke_simple

Spec == Init /\ [][Next]_vars

\* =================================================================== claims
\* ------------------------------------------------------------ the tools (ToolSpec)
Returned == tpc = "returned"
ReturnedMapping == tpc = "returned" /\ ret.kind = "mapping"
\* the i-th symbol of the list does not occur again after position i
LastOccurrence(i) == \A j \in DOMAIN symbols : j > i => symbols[j] # symbols[i]
FailedFetch(o) == o.kind \in {"none", "empty", "raise"}

\* what the tool's loop body gives for the symbol at position i taken alone,
\* with the provider outcome logged for it
OwnResults(i) ==
    LET s == symbols[i]
        o == fetches[i].outcome
    IN  IF tool \in CompanyTools THEN {CompanyTool_symbol(tool, s, o)}
        ELSE IF tool = "view_ohlcv" THEN {ViewOHLCV_symbol(s, o, interval, columns).value}
        ELSE IF tool = "calculate_total_volume" THEN {CalculateTotalVolume_symbol(s, o, interval)}
        ELSE IF tool = "calculate_sma"
        THEN {CalculateSMA_symbol(s, o, interval, periods, b) : b \in BOOLEAN}
        ELSE {CalculateRSI_symbol(s, o, interval, periods[1], b) : b \in BOOLEAN}

\* C1 (isolation): when a tool's call passed validation and returned its mapping,
\* the provider was asked for every symbol of the list, in order, whatever the
\* earlier fetches did; a symbol whose (last) fetch returned None, returned an
\* empty frame or raised has a text message about that very symbol under its own
\* key, and every symbol has the result its own fetch alone determines.
C1_Isolation ==
    ReturnedMapping =>
        /\ Len(fetches) = Len(symbols)
        /\ \A i \in DOMAIN symbols :
            /\ fetches[i].symbol = symbols[i]
            /\ symbols[i] \in DOMAIN ret.map
            /\ LastOccurrence(i) =>
                /\ FailedFetch(fetches[i].outcome) =>
                      /\ ret.map[symbols[i]].kind = "msg"
                      /\ ret.map[symbols[i]].symbol = symbols[i]
                /\ ret.map[symbols[i]] \in OwnResults(i)

\* the fetch in the middle of the list raised; the symbol before it and the one
\* after it have their data, the failing one its message
C1_Witness ==
    /\ ReturnedMapping /\ tool = "view_ohlcv" /\ Len(symbols) = 3
    /\ symbols[1] # symbols[2] /\ symbols[3] = symbols[1]
    /\ fetches[1].outcome.kind = "data" /\ fetches[2].outcome.kind = "raise"
    /\ fetches[3].outcome.kind = "data"
    /\ ret.map[symbols[2]].kind = "msg" /\ ret.map[symbols[2]].symbol = symbols[2]
    /\ ret.map[symbols[3]].kind = "json"

EightIntervals == {"1m", "5m", "15m", "30m", "1H", "1D", "1W", "1M"}

\* C2: in the four tools that take an interval, an interval outside the eight
\* values never reaches the loop: the call returns the one rejection message that
\* lists the eight valid intervals, no mapping, and no fetch has been issued.
C2_InvalidIntervalRejected ==
    (tool \in IntervalTools /\ interval \notin EightIntervals) =>
        /\ tpc = "returned"
        /\ ret.kind = "msg" /\ ret.id = "invalid_interval"
        /\ Range(ret.detail) = EightIntervals /\ Len(ret.detail) = 8
        /\ fetches = <<>> /\ results = EmptyDict

C2_Witness ==
    /\ Returned /\ tool = "calculate_rsi" /\ interval = "1d" /\ Len(symbols) = 2
    /\ ret.kind = "msg" /\ fetches = <<>>

\* C3: in the SMA and RSI tools a period <= 0 anywhere among the requested periods
\* never reaches the loop: the call returns one message, no mapping, no fetch has
\* been issued and nothing was computed; with a valid interval the message is the
\* period rejection naming the first offending period.
C3_NonPositivePeriodRejected ==
    (tool \in {"calculate_sma", "calculate_rsi"} /\ \E k \in DOMAIN periods : periods[k] <= 0) =>
        /\ tpc = "returned"
        /\ ret.kind = "msg"
        /\ fetches = <<>> /\ results = EmptyDict
        /\ interval \in EightIntervals =>
              /\ ret.id = IF tool = "calculate_sma" THEN "invalid_sma_period"
                          ELSE "invalid_rsi_period"
              /\ \E k \in DOMAIN periods :
                    /\ periods[k] <= 0 /\ \A j \in 1..(k - 1) : periods[j] > 0
                    /\ ret.detail = <<ToString(periods[k])>>

\* the non-positive period comes after a valid one, for two symbols
C3_Witness ==
    /\ Returned /\ tool = "calculate_sma" /\ periods = <<2, -1>> /\ Len(symbols) = 2
    /\ interval = "1D" /\ ret.kind = "msg" /\ ret.id = "invalid_sma_period" /\ fetches = <<>>

SixColumns == {"time", "open", "high", "low", "close", "volume"}

\* C4: in the view-prices tool a requested column outside the six never reaches
\* the loop: the call returns one message, no mapping, and no fetch has been
\* issued; with a valid interval the message names the invalid columns.
C4_InvalidColumnRejected ==
    (tool = "view_ohlcv" /\ \E k \in DOMAIN columns.list : columns.list[k] \notin SixColumns) =>
        /\ tpc = "returned"
        /\ ret.kind = "msg"
        /\ fetches = <<>> /\ results = EmptyDict
        /\ interval \in EightIntervals =>
              /\ ret.id = "invalid_columns"
              /\ ret.detail = SelectSeq(columns.list, LAMBDA c : c \notin SixColumns)

\* the invalid column comes after a valid one, for two symbols
C4_Witness ==
    /\ Returned /\ tool = "view_ohlcv" /\ columns.list = <<"close", "price">>
    /\ Len(symbols) = 2 /\ interval = "1D" /\ ret.kind = "msg" /\ ret.id = "invalid_columns"

\* ------------------------------------------------------- process_query (Spec)
Done == pc = "done"
StageCalled(stage) == \E i \in DOMAIN calls : calls[i].stage = stage
StageReturned(stage) == \E i \in DOMAIN calls : calls[i].stage = stage /\ calls[i].error = Null
AgentCalls == SelectSeq(calls, LAMBDA c : c.stage = "agent")
ClassifiedSimple == StageReturned("classify") /\ ~classification.is_complex
ClassifiedComplex == StageReturned("classify") /\ classification.is_complex

\* C5: once a request is classified isComplex = false, Decompose and the Combiner
\* are never called; the Agent is invoked at most once and, when the request has
\* ended, exactly once, with the original query; a response that is returned has
\* isComplex = false.
C5_SimpleNeverDecomposes ==
    ClassifiedSimple =>
        /\ ~StageCalled("decompose") /\ ~StageCalled("combine")
        /\ Len(AgentCalls) <= 1
        /\ \A i \in DOMAIN AgentCalls : AgentCalls[i].arg = <<query>>
        /\ Done =>
              /\ Len(AgentCalls) = 1
              /\ response.kind = "QueryResponse" => response.is_complex = FALSE
              /\ response.kind = "HTTPException" => AgentCalls[1].error # Null

C5_Witness ==
    /\ Done /\ ClassifiedSimple /\ Len(AgentCalls) = 1
    /\ response.kind = "QueryResponse" /\ response.is_complex = FALSE

\* C6: in a complex request, the sub-query list Decompose returned and the
\* orchestrator processes has at least 2 sub-questions.
C6_AtLeastTwoSubQueries ==
    (ClassifiedComplex /\ StageReturned("decompose")) => Len(decomposed_queries) >= 2

\* C7: in a complex request the Agent calls made so far are the first sub-queries
\* in decomposition order, one call each; when the Combiner is invoked it is the
\* last call of the request, right after the Agent call of the last sub-query,
\* and its input has one block per sub-query, block N numbered N and made from
\* the result the N-th Agent call returned.
C7_SequentialInOrder ==
    ClassifiedComplex =>
        /\ Len(AgentCalls) <= Len(decomposed_queries)
        /\ \A k \in DOMAIN AgentCalls : AgentCalls[k].arg = <<decomposed_queries[k]>>
        /\ \A i \in DOMAIN calls :
              calls[i].stage = "combine" =>
                  LET n == Len(decomposed_queries)
                      blocks == calls[i].arg[1].results
                  IN  /\ i = Len(calls) /\ i = n + 3
                      /\ \A k \in 1..n : calls[k + 2].stage = "agent" /\ calls[k + 2].error = Null
                      /\ Len(blocks) = n
                      /\ \A k \in 1..n :
                            /\ blocks[k].n = k
                            /\ blocks[k].body = format_result(calls[k + 2].result[1])

\* two sub-queries with different results reached the Combiner
C7_Witness ==
    /\ Done /\ ClassifiedComplex /\ StageReturned("combine") /\ Len(decomposed_queries) = 2
    /\ decomposed_queries[1] # decomposed_queries[2]
    /\ agent_results[1] = Narrated /\ agent_results[2] = AgentResult(TablePayload, Null, Null)

CombinerBlocks == calls[Len(calls)].arg[1].results

\* C8 as stated: every block the Combiner receives holds extractAnswer of the
\* sub-query's Agent result (content, rendered table, or raw-text fallback).
C8_SubResultsExtracted ==
    (ClassifiedComplex /\ StageCalled("combine")) =>
        \A k \in DOMAIN CombinerBlocks :
            CombinerBlocks[k].body = extract_answer(agent_results[k])

\* C8 amended: every block the Combiner receives holds the raw text of the
\* sub-query's Agent result, whatever its shape: its 'output' entry if it has one,
\* otherwise the string form of the whole result; never the narrated content
\* alone and never a rendered table.
C8_SubResultsRaw ==
    (ClassifiedComplex /\ StageCalled("combine")) =>
        /\ Len(CombinerBlocks) = Len(agent_results)
        /\ \A k \in DOMAIN CombinerBlocks :
            /\ CombinerBlocks[k].body.form = "str"
            /\ CombinerBlocks[k].body =
                  IF agent_results[k].output # Null
                  THEN Str(agent_results[k].output[1]) ELSE Str(agent_results[k])

\* a narrated result and a direct tool payload were both handed over raw
C8_Witness ==
    /\ ClassifiedComplex /\ StageCalled("combine") /\ Len(agent_results) = 2
    /\ agent_results[1] = Narrated /\ agent_results[2] = AgentResult(TablePayload, Null, Null)
    /\ CombinerBlocks[1].body = Str(Narrated)

\* C9 as stated: a complex request that has ended after its decomposition
\* processed every sub-query and invoked the Combiner, whatever failed in between.
C9_SubQueryFailureNeverAborts ==
    (Done /\ ClassifiedComplex /\ StageReturned("decompose")) =>
        /\ Len(agent_results) = Len(decomposed_queries)
        /\ StageCalled("combine")

\* C9 amended: a sub-query whose Agent invocation returns a result that reports a
\* failure (a rejection message, a per-symbol error text) does not abort the
\* request: its block is the raw text of that result, the remaining sub-queries
\* are processed and the Combiner is invoked. Only an exception raised by an Agent
\* invocation aborts the request (C10).
C9_ReportedFailureNeverAborts ==
    (ClassifiedComplex /\ StageReturned("decompose")) =>
        /\ (\E k \in DOMAIN agent_results : ReportsFailure(agent_results[k]))
              => (pc # "done" \/ StageCalled("combine")
                    \/ \E i \in DOMAIN calls : calls[i].stage = "agent" /\ calls[i].error # Null)
        /\ (Done /\ \A i \in DOMAIN calls : calls[i].stage = "agent" => calls[i].error = Null) =>
              /\ Len(agent_results) = Len(decomposed_queries)
              /\ StageCalled("combine")
              /\ \A k \in DOMAIN agent_results :
                    CombinerBlocks[k].body = format_result(agent_results[k])

\* a sub-query that reported a failure, another one processed after it, combined
C9_Witness ==
    /\ Done /\ ClassifiedComplex /\ StageReturned("combine") /\ Len(agent_results) = 2
    /\ ReportsFailure(agent_results[1]) /\ ~ReportsFailure(agent_results[2])
    /\ response.kind = "QueryResponse"

\* C10: an exception raised by a stage is the last thing the request does: no
\* stage is invoked after it (no fallback to the simple path), the request has
\* ended, and its response is the single failure carrying the error's text, with
\* no answer and none of the results of the sub-queries answered before.
C10_ExceptionFailsRequest ==
    \A i \in DOMAIN calls :
        calls[i].error # Null =>
            /\ i = Len(calls)
            /\ pc = "done"
            /\ response.kind = "HTTPException"
            /\ response = HTTPException(calls[i].error[1])
            /\ "answer" \notin DOMAIN response

\* the second sub-query's Agent call raised after the first was answered
C10_Witness ==
    /\ Done /\ ClassifiedComplex /\ Len(agent_results) = 1 /\ Len(decomposed_queries) = 2
    /\ calls[Len(calls)].stage = "agent" /\ calls[Len(calls)].error # Null
    /\ response = HTTPException("agent error")

\* ------------------------------------------------- the simple branch's answer
\* the request took the simple branch and its one Agent call returned
SimpleAnswered ==
    /\ Done /\ ClassifiedSimple
    /\ Len(AgentCalls) = 1 /\ AgentCalls[1].error = Null
\* the dict that call returned
SimpleResult == AgentCalls[1].result[1]
\* the last message is a mapping symbol -> JSON record list
RecordListMapping(last) ==
    /\ last.kind = "mapping"
    /\ \A s \in DOMAIN last.map : last.map[s].kind = "json"
\* ... in which every record has the time field, and there is a record
TimedRecords(last) ==
    /\ \A s \in DOMAIN last.map : \A i \in DOMAIN last.map[s].records :
          "time" \in DOMAIN last.map[s].records[i]
    /\ \E s \in DOMAIN last.map : last.map[s].records # <<>>

\* C11: on the simple branch the answer is the structured response's content
\* whenever the Agent result carries one, whatever its last message holds;
\* without one, a last message that maps symbols to JSON record lists is rendered
\* as one table with exactly one row per record of every symbol and no other
\* row, each row stamped with its symbol and with the epoch-millisecond time
\* converted to a timestamp.
C11_ShapesInOrder ==
    SimpleAnswered =>
        LET r == SimpleResult
        IN  /\ response.kind = "QueryResponse"
            /\ r.structured_response # Null =>
                   response.answer = Content(r.structured_response[1])
            /\ ( /\ r.structured_response = Null
                 /\ RecordListMapping(r.last)
                 /\ TimedRecords(r.last) ) =>
                   /\ response.answer.form = "table"
                   /\ \A s \in DOMAIN r.last.map : \A i \in DOMAIN r.last.map[s].records :
                         Cardinality({row \in response.answer.of :
                                         /\ row.symbol = s /\ row.row = i
                                         /\ row.record = r.last.map[s].records[i]
                                         /\ row.time = Some(Timestamp(
                                                r.last.map[s].records[i]["time"]))}) = 1
                   /\ \A row \in response.answer.of :
                         /\ row.symbol \in DOMAIN r.last.map
                         /\ row.row \in DOMAIN r.last.map[row.symbol].records
                         /\ \A other \in response.answer.of :
                               (other.symbol = row.symbol /\ other.row = row.row) =>
                                  other = row
\* a table of six rows, four of VCB and two of ZZZZ, was answered
C11_Witness ==
    /\ SimpleAnswered
    /\ SimpleResult.structured_response = Null
    /\ RecordListMapping(SimpleResult.last) /\ TimedRecords(SimpleResult.last)
    /\ response.answer.form = "table"
    /\ Cardinality(response.answer.of) = 6
    /\ Cardinality({row \in response.answer.of : row.symbol = "ZZZZ"}) = 2

\* no record of the mapping has the time field: df["time"] raises
NoTimeField(last) ==
    \A s \in DOMAIN last.map : \A i \in DOMAIN last.map[s].records :
        "time" \notin DOMAIN last.map[s].records[i]
\* the try block of the simple branch fails on this last message
ParseFails(last) ==
    \/ last.kind # "mapping"
    \/ /\ last.kind = "mapping"
       /\ \E s \in DOMAIN last.map : last.map[s].kind # "json"
    \/ RecordListMapping(last) /\ NoTimeField(last)

\* C12: on the simple branch, when the Agent result has no structured response
\* and the last message cannot be parsed and tabulated (it is not a mapping, a
\* value is not a JSON record list, or no record has the time field), the request
\* still succeeds and the answer is the raw text of the Agent output: its
\* 'output' entry if it has one, otherwise the string form of the whole result.
C12_ParseFailureFallsBack ==
    (SimpleAnswered /\ SimpleResult.structured_response = Null
                    /\ ParseFails(SimpleResult.last)) =>
        /\ response.kind = "QueryResponse"
        /\ ~response.is_complex
        /\ response.answer.form = "str"
        /\ SimpleResult.output # Null => response.answer.of = SimpleResult.output[1]
        /\ SimpleResult.output = Null => response.answer.of = SimpleResult
\* record lists without a time field were answered with the raw text
C12_Witness ==
    /\ SimpleAnswered
    /\ SimpleResult.structured_response = Null
    /\ RecordListMapping(SimpleResult.last) /\ NoTimeField(SimpleResult.last)
    /\ response.kind = "QueryResponse"
    /\ response.answer = Str(SimpleResult)

\* ------------------------------------------------------------- the indicators
\* the provider returned a frame with a close column for the i-th symbol
FetchedCloses(i) ==
    /\ fetches[i].outcome.kind = "data"
    /\ "close" \in Range(fetches[i].outcome.df.columns)
\* |a|
Abs(a) == IF a < 0 THEN 0 - a ELSE a
\* v is the quotient num / den rounded to the nearest integer (prices and
\* indicators are counted in hundredths, so this is rounding to 2 decimals)
IsRounded(v, num, den) == 2 * Abs(den * v - num) <= den

C14_TotalVolume ==
    (ReturnedMapping /\ tool = "calculate_total_volume") =>
        \A i \in DOMAIN symbols : LastOccurrence(i) =>
            LET o == fetches[i].outcome
                out == ret.map[symbols[i]]
            IN  /\ (o.kind = "data" /\ "volume" \in Range(o.df.columns)
                                    /\ Len(o.df.rows) >= 1) =>
                      /\ out.kind = "int"
                      /\ out.val = SumRange([j \in 1..Len(o.df.rows) |->
                                                o.df.rows[j]["volume"]], 1, Len(o.df.rows))
                /\ FailedFetch(o) =>
                      /\ out.kind = "msg"
                      /\ out.symbol = symbols[i]
\* one symbol totals 100 + 150 + 50 + 70 = 370 beside another whose entry is an
\* error message
C14_Witness ==
    /\ ReturnedMapping /\ tool = "calculate_total_volume"
    /\ \E i, j \in DOMAIN symbols :
          /\ LastOccurrence(i) /\ LastOccurrence(j)
          /\ fetches[i].outcome = Returns(DF_full)
          /\ ret.map[symbols[i]] = IntResult(370)
          /\ FailedFetch(fetches[j].outcome)
          /\ ret.map[symbols[j]].kind = "msg"

\* ------------------------------------------------------------------ returnDirect
\* the tools the specification calls direct
DirectTools == {"view_ohlcv", "calculate_sma", "calculate_rsi"}

\* C15: whichever tool is called, its instance declares returnDirect true exactly
\* when it is the price-retrieval, SMA or RSI tool, both in the set
\* create_finance_agent gives to the agent and in the set get_all_tools returns.
C15_ReturnDirectDeclared ==
    tool \in AllTools =>
        /\ create_finance_agent_tools[tool] = (tool \in DirectTools)
        /\ get_all_tools[tool] = (tool \in DirectTools)

\* ------------------------------------------------------------ requested columns
\* how many times the local columns list holds the time column
TimeCount == Cardinality({k \in DOMAIN columns.list : columns.list[k] = "time"})
\* the columns the i-th symbol's records must have: time and the requested ones,
\* as far as the fetched frame has them
ExpectedColumns(i) ==
    ({"time"} \cup Range(columns.list)) \cap Range(fetches[i].outcome.df.columns)

\* C16: in a returned view-prices call with a non-empty column list, the records
\* of every symbol that has records carry exactly the time column and the
\* requested columns that the fetched frame has, one record per fetched bar,
\* whatever happened to the symbols before it; a symbol whose frame has some of
\* these columns, none of them requested twice, does have records; and the
\* column list holds time at most once.
C16_RequestedColumnsWithTime ==
    (ReturnedMapping /\ tool = "view_ohlcv" /\ Truthy(columns)) =>
        /\ TimeCount <= 1
        /\ \A i \in DOMAIN symbols : LastOccurrence(i) =>
              LET o == fetches[i].outcome
                  out == ret.map[symbols[i]]
              IN  /\ out.kind = "json" =>
                        /\ o.kind = "data"
                        /\ Len(out.records) = Len(o.df.rows)
                        /\ \A j \in DOMAIN out.records :
                              DOMAIN out.records[j] = ExpectedColumns(i)
                  /\ ( /\ o.kind = "data"
                       /\ ExpectedColumns(i) # {}
                       /\ NoDuplicates(columns.list) ) => out.kind = "json"
\* open and volume were requested without time; the first symbol's fetch failed,
\* and the symbol after it has the records of time, open and volume
C16_Witness ==
    /\ ReturnedMapping /\ tool = "view_ohlcv"
    /\ columns = ColumnList(<<"time", "open", "volume">>)
    /\ Len(symbols) >= 2 /\ symbols[1] # symbols[2]
    /\ FailedFetch(fetches[1].outcome)
    /\ fetches[2].outcome = Returns(DF_full)
    /\ ret.map[symbols[1]].kind = "msg"
    /\ ret.map[symbols[2]].kind = "json"
    /\ \A j \in DOMAIN ret.map[symbols[2]].records :
          DOMAIN ret.map[symbols[2]].records[j] = {"time", "open", "volume"}

\* Wilder's smoothing avg(j) = ((p-1) * avg(j-1) + move(j)) / p of the gains
\* (up) or losses of a close series, started from 0 at the first bar and scaled
\* by p^(j-1) to stay in the integers; the scale cancels in gain / (gain + loss)
RECURSIVE Wilder(_, _, _, _)
Wilder(close, p, j, up) ==
    IF j <= 1 THEN 0
    ELSE (p - 1) * Wilder(close, p, j - 1, up)
         + Pow(p, j - 2) * (LET d == close[j] - close[j - 1]
                            IN  IF up THEN (IF d > 0 THEN d ELSE 0)
                                ELSE (IF d < 0 THEN 0 - d ELSE 0))

\* C17: in a returned RSI call with period p, every symbol that has records has
\* one record per fetched bar with exactly one column beside the fetched ones,
\* named RSI_p; its entry is null for the first p bars and, where it is not
\* null, is 100 * gain / (gain + loss) of the Wilder-smoothed gains and losses
\* of the closes, rounded to 2 decimals; a symbol with a close field and at
\* least p bars has such records, with an entry wherever gain + loss > 0 after
\* bar p.
C17_RSIColumn ==
    (ReturnedMapping /\ tool = "calculate_rsi") =>
        \A i \in DOMAIN symbols : LastOccurrence(i) =>
            LET o == fetches[i].outcome
                out == ret.map[symbols[i]]
                p == periods[1]
                name == "RSI_" \o ToString(p)
            IN  /\ out.kind = "json" =>
                      /\ FetchedCloses(i)
                      /\ name \notin Range(o.df.columns)
                      /\ Len(out.records) = Len(o.df.rows)
                      /\ \A j \in DOMAIN out.records :
                            LET v == out.records[j][name]
                                gain == Wilder(Closes(o.df), p, j, TRUE)
                                loss == Wilder(Closes(o.df), p, j, FALSE)
                            IN  /\ DOMAIN out.records[j] = Range(o.df.columns) \cup {name}
                                /\ j <= p => v = Null
                                /\ v # Null =>
                                      /\ gain + loss > 0
                                      /\ IsRounded(v[1], 10000 * gain, gain + loss)
                                /\ (j > p /\ Len(o.df.rows) >= p /\ gain + loss > 0) =>
                                      v # Null
                /\ (FetchedCloses(i) /\ Len(o.df.rows) >= p) => out.kind = "json"
\* period 2 over the closes 10.00, 11.00, 13.00, 12.00: RSI_2 is null, null,
\* 100.00 (no loss yet) and 55.56
C17_Witness ==
    /\ ReturnedMapping /\ tool = "calculate_rsi" /\ periods = <<2>>
    /\ \E i \in DOMAIN symbols :
          /\ LastOccurrence(i) /\ FetchedCloses(i)
          /\ ret.map[symbols[i]].kind = "json"
          /\ [j \in 1..4 |-> ret.map[symbols[i]].records[j]["RSI_2"]] =
                <<Null, Null, Some(10000), Some(5556)>>

\* ------------------------------------------------------------ the mapping's keys
\* how often the name s occurs in the symbol list / among the provider calls
Occurrences(s) == Cardinality({i \in DOMAIN symbols : symbols[i] = s})
FetchesOf(s) == Cardinality({i \in DOMAIN fetches : fetches[i].symbol = s})

\* C18: when a call of any tool passed validation and returned, the keys of the
\* returned mapping are exactly the distinct symbols of the input list, the
\* provider was asked for each symbol exactly as often as the symbol occurs in
\* the list, and the entry of a symbol is what its last occurrence's fetch gives.
C18_KeysAreDistinctSymbols ==
    ReturnedMapping =>
        /\ DOMAIN ret.map = Range(symbols)
        /\ \A s \in SymbolNames : FetchesOf(s) = Occurrences(s)
        /\ \A s \in Range(symbols) :
              LET last == CHOOSE i \in DOMAIN symbols :
                             symbols[i] = s /\ LastOccurrence(i)
              IN  ret.map[s] \in OwnResults(last)
\* a symbol listed twice: its first fetch returned data, its second one failed,
\* and its one entry is the message of the second
C18_Witness ==
    /\ ReturnedMapping
    /\ \E i, j \in DOMAIN symbols :
          /\ i < j /\ symbols[i] = symbols[j] /\ LastOccurrence(j)
          /\ fetches[i].outcome.kind = "data"
          /\ FailedFetch(fetches[j].outcome)
          /\ ret.map[symbols[j]].kind = "msg"
          /\ FetchesOf(symbols[j]) >= 2
          /\ Cardinality(DOMAIN ret.map) < Len(symbols)

\* ------------------------------------------------------- one failing symbol
\* the call just returned was made by a tool the agent holds as return_direct
DirectReturned == Returned /\ tool \in AllTools /\ create_finance_agent_tools[tool]

\* C19: when a direct tool returned a mapping in which at least one symbol's
\* entry is an error message, the simple branch answers with the raw text of the
\* whole Agent result and renders no table, wherever in the list the failing
\* symbol stands and however many entries are valid record lists.
C19_OneErrorNoTable ==
    ( /\ DirectReturned /\ ret.kind = "mapping"
      /\ \E s \in DOMAIN ret.map : ret.map[s].kind = "msg" ) =>
        /\ tool_answer.form = "str"
        /\ tool_answer.of = AgentResult(ret, Null, Null)
\* two symbols: the first one's fetch failed, the second one's entry is a record
\* list with the time field, and the answer is the raw text
C19_Witness ==
    /\ DirectReturned /\ ret.kind = "mapping"
    /\ Len(symbols) = 2 /\ symbols[1] # symbols[2]
    /\ ret.map[symbols[1]].kind = "msg"
    /\ ret.map[symbols[2]].kind = "json"
    /\ \A j \in DOMAIN ret.map[symbols[2]].records :
          "time" \in DOMAIN ret.map[symbols[2]].records[j]
    /\ tool_answer.form = "str"

====
